---------------------------- MODULE Spec2Model ----------------------------
(***************************************************************************)
(* Model of the media service of src/main.py: the two HTTP handlers        *)
(* get_video and list_videos running on one event loop against an object   *)
(* store, the segment selection block of get_video, and the generator      *)
(* generate_stream that relays an object body chunk by chunk.              *)
(*                                                                         *)
(* Python str values are sequences of one-character strings, so that       *)
(* parsing, formatting, basename extraction and lexical comparison are     *)
(* computed rather than assumed.                                           *)
(***************************************************************************)
EXTENDS Naturals, Integers, Sequences, FiniteSets, TLC

VARIABLES bucket, pc, loop, frame, sel, relay

vars == <<bucket, pc, loop, frame, sel, relay>>

(***************************************************************************)
(* Bounds of the model.                                                    *)
(***************************************************************************)
NumReq == 2
MaxKeys == 3
MaxListing == 3
MaxChunks == 3
MaxChunkLen == 2

Requests == 1..NumReq

(***************************************************************************)
(* Characters and Python's str ordering (by code point).                   *)
(***************************************************************************)
DigitChars == <<"0", "1", "2", "3", "4", "5", "6", "7", "8", "9">>

IsDigit(c) == \E k \in 1..10 : DigitChars[k] = c

DigitVal(c) == (CHOOSE k \in 1..10 : DigitChars[k] = c) - 1

Ord(c) ==
    IF IsDigit(c) THEN 48 + DigitVal(c)
    ELSE CASE c = " " -> 32
           [] c = "-" -> 45
           [] c = "." -> 46
           [] c = "/" -> 47
           [] c = ":" -> 58
           [] c = "_" -> 95
           [] c = "a" -> 97
           [] c = "b" -> 98
           [] c = "c" -> 99
           [] c = "m" -> 109
           [] c = "p" -> 112
           [] c = "t" -> 116
           [] c = "x" -> 120

RECURSIVE StrLess(_, _)
StrLess(a, b) ==
    IF b = <<>> THEN FALSE
    ELSE IF a = <<>> THEN TRUE
    ELSE IF Head(a) # Head(b) THEN Ord(Head(a)) < Ord(Head(b))
    ELSE StrLess(Tail(a), Tail(b))

StrLeq(a, b) == a = b \/ StrLess(a, b)

startswith(s, p) == Len(p) <= Len(s) /\ SubSeq(s, 1, Len(p)) = p

endswith(s, suffix) ==
    Len(suffix) <= Len(s) /\ SubSeq(s, Len(s) - Len(suffix) + 1, Len(s)) = suffix

\* os.path.basename: the text after the last "/"
basename(key) ==
    LET slashes == {i \in 1..Len(key) : key[i] = "/"}
        last == IF slashes = {} THEN 0
                ELSE CHOOSE i \in slashes : \A j \in slashes : j <= i
    IN SubSeq(key, last + 1, Len(key))

RECURSIVE Insert(_, _)
Insert(x, s) ==
    IF s = <<>> THEN <<x>>
    ELSE IF StrLess(x, Head(s)) THEN <<x>> \o s
    ELSE <<Head(s)>> \o Insert(x, Tail(s))

RECURSIVE InsertionSort(_)
InsertionSort(s) ==
    IF s = <<>> THEN <<>> ELSE Insert(s[Len(s)], InsertionSort(SubSeq(s, 1, Len(s) - 1)))

\* a listing returned as it arrived, with no ordering step
unsorted(s) == s

\* Python's sorted() on a list of str: ascending, stable
sorted(s) == InsertionSort(s)

(***************************************************************************)
(* datetime.strptime(text, "%Y-%m-%d_%H:%M:%S") and strftime.              *)
(***************************************************************************)
Format == <<"Y", "-", "m", "-", "d", "_", "H", ":", "M", ":", "S">>

Directives == {"Y", "m", "d", "H", "M", "S"}

Raised == [ok |-> FALSE, Y |-> 0, m |-> 0, d |-> 0, H |-> 0, M |-> 0, S |-> 0]

\* the character classes of the regular expression each directive compiles to
FieldOK(dir, f) ==
    LET n == Len(f)
        dig(i) == IsDigit(f[i])
        in(i, lo, hi) == dig(i) /\ DigitVal(f[i]) >= lo /\ DigitVal(f[i]) <= hi
    IN CASE dir = "Y" -> n = 4 /\ \A i \in 1..4 : dig(i)
         [] dir = "m" -> \/ n = 2 /\ f[1] = "1" /\ in(2, 0, 2)
                         \/ n = 2 /\ f[1] = "0" /\ in(2, 1, 9)
                         \/ n = 1 /\ in(1, 1, 9)
         [] dir = "d" -> \/ n = 2 /\ f[1] = "3" /\ in(2, 0, 1)
                         \/ n = 2 /\ in(1, 1, 2) /\ dig(2)
                         \/ n = 2 /\ f[1] = "0" /\ in(2, 1, 9)
                         \/ n = 1 /\ in(1, 1, 9)
                         \/ n = 2 /\ f[1] = " " /\ in(2, 1, 9)
         [] dir = "H" -> \/ n = 2 /\ f[1] = "2" /\ in(2, 0, 3)
                         \/ n = 2 /\ in(1, 0, 1) /\ dig(2)
                         \/ n = 1 /\ dig(1)
         [] dir = "M" -> \/ n = 2 /\ in(1, 0, 5) /\ dig(2)
                         \/ n = 1 /\ dig(1)
         [] dir = "S" -> \/ n = 2 /\ f[1] = "6" /\ in(2, 0, 1)
                         \/ n = 2 /\ in(1, 0, 5) /\ dig(2)
                         \/ n = 1 /\ dig(1)

RECURSIVE IntOf(_)
IntOf(f) ==
    IF f = <<>> THEN 0
    ELSE IF f[Len(f)] = " " THEN IntOf(SubSeq(f, 1, Len(f) - 1))
    ELSE 10 * IntOf(SubSeq(f, 1, Len(f) - 1)) + DigitVal(f[Len(f)])

\* the end of the run of digits and blanks that starts at position i
RunEnd(s, i) ==
    LET stops == {k \in i..Len(s) : ~(IsDigit(s[k]) \/ s[k] = " ")}
    IN IF stops = {} THEN Len(s)
       ELSE (CHOOSE k \in stops : \A j \in stops : k <= j) - 1

IsLeap(y) == (y % 4 = 0 /\ y % 100 # 0) \/ y % 400 = 0

DaysInMonth(y, m) ==
    IF m = 2 THEN (IF IsLeap(y) THEN 29 ELSE 28)
    ELSE IF m \in {4, 6, 9, 11} THEN 30 ELSE 31

\* the datetime constructor's range checks (ValueError otherwise)
MakeDatetime(t) ==
    IF /\ t.Y >= 1 /\ t.Y <= 9999
       /\ t.m >= 1 /\ t.m <= 12
       /\ t.d >= 1 /\ t.d <= DaysInMonth(t.Y, t.m)
       /\ t.H <= 23 /\ t.M <= 59 /\ t.S <= 59
    THEN t ELSE Raised

\* match the format from directive k on, at position i of text
RECURSIVE MatchFrom(_, _, _, _)
MatchFrom(text, i, k, acc) ==
    IF k > Len(Format)
    THEN (IF i = Len(text) + 1 THEN MakeDatetime(acc) ELSE Raised)
    ELSE IF Format[k] \in Directives
    THEN LET e == RunEnd(text, i)
             f == SubSeq(text, i, e)
             dir == Format[k]
         IN IF FieldOK(dir, f)
            THEN MatchFrom(text, e + 1, k + 1, [acc EXCEPT ![dir] = IntOf(f)])
            ELSE Raised
    ELSE IF i <= Len(text) /\ text[i] = Format[k]
         THEN MatchFrom(text, i + 1, k + 1, acc)
         ELSE Raised

strptime(text) ==
    MatchFrom(text, 1, 1, [ok |-> TRUE, Y |-> 0, m |-> 0, d |-> 0, H |-> 0, M |-> 0, S |-> 0])

Pad2(n) == <<DigitChars[((n \div 10) % 10) + 1], DigitChars[(n % 10) + 1]>>

Pad4(n) == Pad2(n \div 100) \o Pad2(n % 100)

\* input_time.strftime("%Y-%m-%d")
strftime_date(t) == Pad4(t.Y) \o <<"-">> \o Pad2(t.m) \o <<"-">> \o Pad2(t.d)

\* input_time.strftime("%H%M%S")
strftime_time(t) == Pad2(t.H) \o Pad2(t.M) \o Pad2(t.S)

(***************************************************************************)
(* Request inputs and the contents of the object store.                    *)
(***************************************************************************)
mp4 == <<".", "m", "p", "4">>

cam01 == <<"c", "a", "m", "0", "1">>

cam02 == <<"c", "a", "m", "0", "2">>

Cameras == {cam01, cam02}

day1 == <<"2", "0", "2", "4", "-", "0", "1", "-", "0", "1">>

day2 == <<"2", "0", "2", "4", "-", "0", "1", "-", "0", "2">>

Dates == {day1, day2}

T(date, H, M, S) == date \o <<"_">> \o H \o <<":">> \o M \o <<":">> \o S

ExactTargets ==
    { T(day1, <<"0", "9">>, <<"0", "0">>, <<"0", "0">>),
      T(day1, <<"1", "1">>, <<"0", "0">>, <<"0", "0">>),
      T(day1, <<"1", "1">>, <<"3", "0">>, <<"0", "0">>),
      T(day2, <<"1", "1">>, <<"0", "0">>, <<"0", "0">>) }

\* strings that are not of the exact form YYYY-MM-DD_HH:MM:SS
OtherTargets ==
    { <<>>,
      T(day1, <<"9">>, <<"0", "0">>, <<"0", "0">>),
      T(<<"2", "0", "2", "4", "-", "1", "-", "0", "1">>, <<"1", "1">>, <<"0", "0">>, <<"0", "0">>),
      T(<<"2", "0", "2", "4", "-", "0", "1", "-", " ", "1">>, <<"1", "1">>, <<"0", "0">>, <<"0", "0">>),
      T(<<"2", "0", "2", "4", "-", "1", "3", "-", "0", "1">>, <<"1", "1">>, <<"0", "0">>, <<"0", "0">>),
      T(<<"2", "0", "2", "4", "-", "0", "2", "-", "3", "0">>, <<"1", "1">>, <<"0", "0">>, <<"0", "0">>),
      T(<<"0", "0", "0", "0", "-", "0", "1", "-", "0", "1">>, <<"1", "1">>, <<"0", "0">>, <<"0", "0">>),
      T(day1, <<"2", "4">>, <<"0", "0">>, <<"0", "0">>),
      T(day1, <<"1", "1">>, <<"0", "0">>, <<"6", "0">>),
      T(day1, <<"1", "1">>, <<"0", "0">>, <<"a", "b">>),
      day1 \o <<" ", "1", "1", ":", "0", "0", ":", "0", "0">>,
      day1 \o <<"_", "1", "1", ":", "0", "0">>,
      T(day1, <<"1", "1">>, <<"0", "0">>, <<"0", "0">>) \o <<" ">> }

Targets == ExactTargets \cup OtherTargets

\* lines 94 and 150: f"{camera}/{date_str}/"
Prefix(camera, date_str) == camera \o <<"/">> \o date_str \o <<"/">>

Basenames ==
    { <<"1", "0", "0", "0", "0", "0">> \o mp4,
      <<"1", "1", "0", "0", "0", "0">> \o mp4,
      <<"1", "2", "0", "0", "0", "0">> \o mp4,
      <<"1", "0", "9", "9", "9", "9">> \o mp4,
      <<"a", "b", "c">> \o mp4,
      <<"1", "0", "0", "0", "0", "0", ".", "t", "x", "t">>,
      <<"0", "1", "1", "0", "0", "0", "0">> \o mp4,
      <<"a", "/", "1", "0", "0", "0", "0", "0">> \o mp4,
      <<"b", "/", "0", "9", "0", "0", "0", "0">> \o mp4 }

\* the keys a listing of cam01/2024-01-01/ is drawn from
DayKeys == {Prefix(cam01, day1) \o b : b \in Basenames}

\* the keys the bucket is drawn from
KeyUniverse ==
    { Prefix(cam01, day1) \o <<"1", "0", "0", "0", "0", "0">> \o mp4,
      Prefix(cam01, day1) \o <<"1", "1", "0", "0", "0", "0">> \o mp4,
      Prefix(cam01, day1) \o <<"a", "b", "c">> \o mp4,
      Prefix(cam01, day1) \o <<"b", "/", "0", "9", "0", "0", "0", "0">> \o mp4,
      Prefix(cam01, day2) \o <<"1", "0", "0", "0", "0", "0">> \o mp4,
      Prefix(cam02, day1) \o <<"1", "0", "0", "0", "0", "0">> \o mp4 }

\* the orders in which a set of keys can arrive in a listing
Perms(S) ==
    {s \in [1..Cardinality(S) -> S] : \A i, j \in 1..Cardinality(S) : s[i] = s[j] => i = j}

\* list_objects_v2(Bucket, Prefix): the keys of the bucket under the prefix
ListObjects(b, prefix) == Perms({k \in b : startswith(k, prefix)})

StorageOutcomes == {"ok", "ClientError", "Exception"}

(***************************************************************************)
(* Responses.                                                              *)
(***************************************************************************)
None == <<>>

NoResponse ==
    [status |-> 0, kind |-> "none", error |-> "", detail |-> <<>>, files |-> <<>>,
     media_type |-> "", key |-> None]

JSONResponse(status, error, detail) ==
    [status |-> status, kind |-> "error", error |-> error, detail |-> detail,
     files |-> <<>>, media_type |-> "application/json", key |-> None]

FilesResponse(files) ==
    [status |-> 200, kind |-> "files", error |-> "", detail |-> <<>>, files |-> files,
     media_type |-> "application/json", key |-> None]

StreamingResponse(key) ==
    [status |-> 200, kind |-> "stream", error |-> "", detail |-> <<>>, files |-> <<>>,
     media_type |-> "video/mp4", key |-> key]

NoFrame ==
    [req |-> 0, endpoint |-> "none", datetime |-> <<>>, camera |-> <<>>, date |-> <<>>,
     input_time |-> Raised, prefix |-> <<>>, returned |-> FALSE, Contents |-> <<>>,
     selected_file |-> None, list_calls |-> 0, get_calls |-> 0, raised |-> "none",
     response |-> NoResponse]

(***************************************************************************)
(* get_video, lines 72-141.                                                *)
(***************************************************************************)
\* line 73: inside get_video the name `datetime` is bound to the str parameter,
\* which hides the module imported at line 3
datetime_in_get_video == "str"

\* line 81 with the name `datetime` resolved to the module
try_strptime_on_module(text) == strptime(text)

\* lines 80-82: datetime.datetime.strptime(datetime, fmt) under `except Exception`;
\* the attribute lookup `datetime.datetime` raises AttributeError on a str
try_strptime(text) ==
    IF datetime_in_get_video = "module" THEN strptime(text) ELSE Raised

\* lines 110-120
select_file(file_list, target_name) ==
    IF \E i \in 1..Len(file_list) : basename(file_list[i]) = target_name
    THEN LET Ends(f) == endswith(f, target_name)
         IN Head(SelectSeq(file_list, Ends))
    ELSE LET sorted_files == sorted(file_list)
             at_or_before == {i \in 1..Len(sorted_files) :
                                 StrLeq(basename(sorted_files[i]), target_name)}
         IN IF at_or_before = {} THEN None
            ELSE sorted_files[CHOOSE i \in at_or_before : \A j \in at_or_before : j <= i]

\* lines 104-120: from objects["Contents"] and input_time to selected_file
choose_segment(contents, input_time) ==
    select_file(sorted(contents), strftime_time(input_time) \o mp4)

\* lines 136-141
get_video_except(exc) ==
    IF exc = "ClientError"
    THEN JSONResponse(500, "MinIO access error", <<>>)
    ELSE JSONResponse(500, "Server error", <<>>)

\* an except clause that answers with an empty listing instead of an error
list_videos_swallow(exc) == FilesResponse(<<>>)

\* lines 157-159
list_videos_except(exc) == JSONResponse(500, "Server error", <<>>)

\* lines 98-130: get_video from the return of list_objects_v2 to the get_object call
get_video_after_list(f, contents) ==
    LET g == [f EXCEPT !.returned = TRUE, !.Contents = contents]
    IN IF contents = <<>>
       THEN [frame |-> [g EXCEPT !.response =
                            JSONResponse(404, "No files found for ", f.prefix)],
             pc |-> "done"]
       ELSE LET selected_file == choose_segment(contents, f.input_time)
            IN IF selected_file = None
               THEN [frame |-> [g EXCEPT !.response =
                                    JSONResponse(404, "No matching video found for ", f.datetime)],
                     pc |-> "done"]
               ELSE [frame |-> [g EXCEPT !.selected_file = selected_file, !.get_calls = 1],
                     pc |-> "getting"]

\* lines 154-156
list_videos_after_list(f, contents) ==
    LET g == [f EXCEPT !.returned = TRUE, !.Contents = contents]
    IN [frame |-> [g EXCEPT !.response =
                       IF contents = <<>> THEN FilesResponse(<<>>)
                       ELSE FilesResponse(sorted(contents))],
        pc |-> "done"]

Failed(f, exc) ==
    [frame |-> [f EXCEPT !.raised = exc,
                         !.response = IF f.endpoint = "get_video"
                                      THEN get_video_except(exc)
                                      ELSE list_videos_except(exc)],
     pc |-> "done"]

(***************************************************************************)
(* The service: requests arrive, their handlers run on the event loop.     *)
(***************************************************************************)
NoSel == [state |-> "off", contents |-> <<>>, input_time |-> Raised, selected_file |-> None]

NoRelay ==
    [all |-> <<>>, source |-> <<>>, avail |-> <<>>, held |-> <<>>, emitted |-> <<>>,
     gen |-> "off", consumer |-> "off"]

Init ==
    /\ bucket \in {b \in SUBSET KeyUniverse : Cardinality(b) <= MaxKeys}
    /\ pc = [r \in Requests |-> "idle"]
    /\ loop = 0
    /\ frame = NoFrame
    /\ sel = NoSel
    /\ relay = NoRelay

\* a request arrives and its handler is scheduled on the event loop
Receive(r) ==
    /\ pc[r] = "idle"
    /\ pc' = [pc EXCEPT ![r] = "scheduled"]
    /\ UNCHANGED <<bucket, loop, frame, sel, relay>>

\* lines 72-97: the handler runs on the loop up to its first storage call
get_video(r) ==
    /\ pc[r] = "scheduled"
    /\ loop = 0
    /\ \E text \in Targets, camera \in Cameras :
         LET input_time == try_strptime(text)
             f == [NoFrame EXCEPT !.req = r, !.endpoint = "get_video",
                                  !.datetime = text, !.camera = camera]
         IN IF ~input_time.ok
            THEN /\ frame' = [f EXCEPT !.response =
                                JSONResponse(400, "Invalid datetime format. Use YYYY-MM-DD_HH:MM:SS", <<>>)]
                 /\ pc' = [pc EXCEPT ![r] = "done"]
                 /\ loop' = 0
            ELSE /\ frame' = [f EXCEPT !.input_time = input_time,
                                       !.prefix = Prefix(camera, strftime_date(input_time)),
                                       !.list_calls = 1]
                 /\ pc' = [pc EXCEPT ![r] = "listing"]
                 /\ loop' = r
    /\ UNCHANGED <<bucket, sel, relay>>

\* lines 144-153
list_videos(r) ==
    /\ pc[r] = "scheduled"
    /\ loop = 0
    /\ \E camera \in Cameras, date \in Dates :
         frame' = [NoFrame EXCEPT !.req = r, !.endpoint = "list_videos", !.camera = camera,
                                  !.date = date, !.prefix = Prefix(camera, date),
                                  !.list_calls = 1]
    /\ pc' = [pc EXCEPT ![r] = "listing"]
    /\ loop' = r
    /\ UNCHANGED <<bucket, sel, relay>>

\* the synchronous storage call of the handler on the loop returns or raises,
\* and the handler runs on to its next storage call or to its response
StorageReturn(r) ==
    /\ loop = r
    /\ pc[r] \in {"listing", "getting"}
    /\ \E outcome \in StorageOutcomes :
         \E contents \in ListObjects(bucket, frame.prefix) :
           LET next ==
                 IF outcome # "ok" THEN Failed(frame, outcome)
                 ELSE IF pc[r] = "getting"
                 THEN [frame |-> [frame EXCEPT !.response = StreamingResponse(frame.selected_file)],
                       pc |-> "done"]
                 ELSE IF frame.endpoint = "get_video"
                 THEN get_video_after_list(frame, contents)
                 ELSE list_videos_after_list(frame, contents)
           IN /\ frame' = next.frame
              /\ pc' = [pc EXCEPT ![r] = next.pc]
              /\ loop' = IF next.pc = "done" THEN 0 ELSE r
    /\ UNCHANGED <<bucket, sel, relay>>

Next == \E r \in Requests : Receive(r) \/ get_video(r) \/ list_videos(r) \/ StorageReturn(r)

Spec == Init /\ [][Next]_vars

(***************************************************************************)
(* The selection block of get_video (lines 104-126) applied to a listing   *)
(* and a parsed target.                                                    *)
(***************************************************************************)
SelListings ==
    UNION {Perms(S) : S \in {K \in SUBSET DayKeys : K # {} /\ Cardinality(K) <= MaxListing}}

SelTimes == {strptime(t) : t \in ExactTargets}

InitSelect ==
    /\ bucket = {}
    /\ pc = [r \in Requests |-> "idle"]
    /\ loop = 0
    /\ frame = NoFrame
    /\ relay = NoRelay
    /\ sel \in [state : {"input"}, contents : SelListings, input_time : SelTimes,
                selected_file : {None}]

\* lines 104-126: select, then 404 when nothing was selected
Select ==
    /\ sel.state = "input"
    /\ LET selected_file == choose_segment(sel.contents, sel.input_time)
       IN sel' = [sel EXCEPT !.selected_file = selected_file,
                             !.state = IF selected_file = None THEN "not_found"
                                       ELSE "selected"]
    /\ UNCHANGED <<bucket, pc, loop, frame, relay>>

NextSelect == Select

SpecSelect == InitSelect /\ [][NextSelect]_vars

(***************************************************************************)
(* generate_stream, lines 40-44: a generator over obj_body.iter_chunks,    *)
(* driven by the consumer of the response.                                 *)
(***************************************************************************)
chunk_size == 8192

Bytes == {"x", "y"}

Chunks ==
    {c \in UNION {[1..n -> Bytes] : n \in 0..MaxChunkLen} : Len(c) <= chunk_size}

Sources == UNION {[1..n -> Chunks] : n \in 0..MaxChunks}

InitRelay ==
    /\ bucket = {}
    /\ pc = [r \in Requests |-> "idle"]
    /\ loop = 0
    /\ frame = NoFrame
    /\ sel = NoSel
    /\ \E src \in Sources :
         relay = [all |-> src, source |-> src, avail |-> <<>>, held |-> <<>>,
                  emitted |-> <<>>, gen |-> "created", consumer |-> "idle"]

\* an iterator step that drains everything the stream has buffered
iter_drain(avail) == avail

\* line 42: one step of the iterator takes one chunk from the stream
iter_next(avail) == SubSeq(avail, 1, 1)

\* a test that lets every chunk through
keep_all(chunk) == TRUE

\* line 43: `if chunk`
keep(chunk) == chunk # <<>>

\* the storage side delivers the next chunk of the object into the body stream
SourceArrive ==
    /\ relay.gen # "off"
    /\ relay.source # <<>>
    /\ relay' = [relay EXCEPT !.source = Tail(relay.source),
                              !.avail = Append(relay.avail, Head(relay.source))]
    /\ UNCHANGED <<bucket, pc, loop, frame, sel>>

\* the consumer asks the generator for its next chunk
ConsumerNext ==
    /\ relay.consumer = "idle"
    /\ relay.gen \in {"created", "suspended"}
    /\ relay' = [relay EXCEPT !.consumer = "waiting",
                              !.gen = IF relay.held = <<>> THEN "reading" ELSE "testing"]
    /\ UNCHANGED <<bucket, pc, loop, frame, sel>>

\* line 42: the for loop fetches a chunk, or ends at end-of-data
ReadChunk ==
    /\ relay.gen = "reading"
    /\ IF relay.avail # <<>>
       THEN LET got == iter_next(relay.avail)
            IN relay' = [relay EXCEPT !.held = got,
                                      !.avail = SubSeq(relay.avail, Len(got) + 1, Len(relay.avail)),
                                      !.gen = "testing"]
       ELSE /\ relay.source = <<>>
            /\ relay' = [relay EXCEPT !.gen = "done", !.consumer = "finished"]
    /\ UNCHANGED <<bucket, pc, loop, frame, sel>>

\* lines 43-44: a non-empty chunk is yielded to the consumer, an empty one dropped
TestChunk ==
    /\ relay.gen = "testing"
    /\ IF keep(Head(relay.held))
       THEN relay' = [relay EXCEPT !.emitted = Append(relay.emitted, Head(relay.held)),
                                   !.held = Tail(relay.held),
                                   !.gen = "suspended",
                                   !.consumer = "sending"]
       ELSE relay' = [relay EXCEPT !.held = Tail(relay.held),
                                   !.gen = IF Tail(relay.held) = <<>> THEN "reading"
                                           ELSE "testing"]
    /\ UNCHANGED <<bucket, pc, loop, frame, sel>>

\* the consumer finishes writing the chunk it was given to its transport
ConsumerSend ==
    /\ relay.consumer = "sending"
    /\ relay' = [relay EXCEPT !.consumer = "idle"]
    /\ UNCHANGED <<bucket, pc, loop, frame, sel>>

NextRelay == SourceArrive \/ ConsumerNext \/ ReadChunk \/ TestChunk \/ ConsumerSend

SpecRelay == InitRelay /\ [][NextRelay]_vars

(***************************************************************************)
(* What the specification means by a valid target, a valid segment and     *)
(* EXACT_OR_BEFORE, stated independently of the code above.                *)
(***************************************************************************)
\* text is a date-time of the exact form YYYY-MM-DD_HH:MM:SS with every field in range
ExactForm(text) ==
    /\ Len(text) = 19
    /\ text[5] = "-" /\ text[8] = "-" /\ text[11] = "_" /\ text[14] = ":" /\ text[17] = ":"
    /\ \A i \in (1..19) \ {5, 8, 11, 14, 17} : IsDigit(text[i])
    /\ LET y == IntOf(SubSeq(text, 1, 4))
           m == IntOf(SubSeq(text, 6, 7))
           d == IntOf(SubSeq(text, 9, 10))
       IN /\ y >= 1 /\ m >= 1 /\ m <= 12 /\ d >= 1 /\ d <= DaysInMonth(y, m)
          /\ IntOf(SubSeq(text, 12, 13)) <= 23
          /\ IntOf(SubSeq(text, 15, 16)) <= 59
          /\ IntOf(SubSeq(text, 18, 19)) <= 59

\* the basename is six digits forming a 24-hour HHMMSS, followed by .mp4
ValidBasename(b) ==
    /\ Len(b) = 10
    /\ SubSeq(b, 7, 10) = mp4
    /\ \A i \in 1..6 : IsDigit(b[i])
    /\ IntOf(SubSeq(b, 1, 2)) <= 23
    /\ IntOf(SubSeq(b, 3, 4)) <= 59
    /\ IntOf(SubSeq(b, 5, 6)) <= 59

SecondsOfBasename(b) ==
    3600 * IntOf(SubSeq(b, 1, 2)) + 60 * IntOf(SubSeq(b, 3, 4)) + IntOf(SubSeq(b, 5, 6))

SecondsOfTime(t) == 3600 * t.H + 60 * t.M + t.S

SecondsOfTarget(text) ==
    3600 * IntOf(SubSeq(text, 12, 13)) + 60 * IntOf(SubSeq(text, 15, 16))
        + IntOf(SubSeq(text, 18, 19))

Range(s) == {s[i] : i \in 1..Len(s)}

ValidEntries(keys) == {k \in keys : ValidBasename(basename(k))}

\* the keys EXACT_OR_BEFORE allows for a target of `secs` seconds into the day;
\* the empty set stands for not-found
ExactOrBefore(keys, secs) ==
    LET entries == ValidEntries(keys)
        exact == {k \in entries : SecondsOfBasename(basename(k)) = secs}
        before == {k \in entries : SecondsOfBasename(basename(k)) < secs}
    IN IF exact # {} THEN exact
       ELSE {k \in before : \A j \in before :
                SecondsOfBasename(basename(j)) <= SecondsOfBasename(basename(k))}

\* the handler whose frame is on record has returned its response
Returned == frame.req # 0 /\ pc[frame.req] = "done"

\* the prefix the specification derives from a target of the exact form
DerivedPrefix(camera, text) == Prefix(camera, SubSeq(text, 1, 10))

KeysUnder(prefix) == {k \in bucket : startswith(k, prefix)}

RECURSIVE Concat(_)
Concat(chunks) == IF chunks = <<>> THEN <<>> ELSE Head(chunks) \o Concat(Tail(chunks))

NonEmptyChunks(chunks) == LET Full(c) == c # <<>> IN SelectSeq(chunks, Full)

IsPrefixOf(a, b) == Len(a) <= Len(b) /\ SubSeq(b, 1, Len(a)) = a

InvalidFormatMessage == "Invalid datetime format. Use YYYY-MM-DD_HH:MM:SS"

(***************************************************************************)
(* C1                                                                      *)
(***************************************************************************)
\* C1: a get_video request whose target is not a valid date-time of the exact form
\* YYYY-MM-DD_HH:MM:SS issues no storage list call and no storage get call at any
\* point, and its response is 400 with the invalid-datetime-format error.
C1_InvalidTargetRejected ==
    (frame.endpoint = "get_video" /\ ~ExactForm(frame.datetime)) =>
        /\ frame.list_calls = 0
        /\ frame.get_calls = 0
        /\ pc[frame.req] \notin {"listing", "getting"}
        /\ Returned => /\ frame.response.status = 400
                       /\ frame.response.kind = "error"
                       /\ frame.response.error = InvalidFormatMessage

\* C1 witness: a request whose month is written with one digit (wrong shape, yet a
\* string strptime itself would accept) has been answered 400 without storage access.
C1_Witness ==
    /\ Returned
    /\ frame.endpoint = "get_video"
    /\ frame.datetime = T(<<"2", "0", "2", "4", "-", "1", "-", "0", "1">>,
                          <<"1", "1">>, <<"0", "0">>, <<"0", "0">>)
    /\ frame.response.status = 400
    /\ frame.list_calls = 0

(***************************************************************************)
(* C2                                                                      *)
(***************************************************************************)
\* C2: a get_video request whose target is a valid date-time of the exact form never
\* responds 400 and lists the storage keys under its prefix; when a qualifying
\* segment exists the response is 200 streaming a segment as video/mp4.
C2_ValidTargetParses ==
    (Returned /\ frame.endpoint = "get_video" /\ ExactForm(frame.datetime)) =>
        /\ frame.response.status # 400
        /\ frame.list_calls = 1
        /\ frame.prefix = DerivedPrefix(frame.camera, frame.datetime)
        /\ (/\ frame.raised = "none"
            /\ ExactOrBefore(KeysUnder(frame.prefix), SecondsOfTarget(frame.datetime)) # {})
             => /\ frame.response.status = 200
                /\ frame.response.kind = "stream"
                /\ frame.response.media_type = "video/mp4"

C5_EmptyPrefixNotFound ==
    (/\ Returned
     /\ frame.endpoint = "get_video"
     /\ ExactForm(frame.datetime)
     /\ frame.raised = "none"
     /\ KeysUnder(DerivedPrefix(frame.camera, frame.datetime)) = {})
        => /\ frame.response.status = 404
           /\ frame.get_calls = 0

(***************************************************************************)
(* C6                                                                      *)
(***************************************************************************)
\* C6: list_videos returns with status 200 exactly the keys of the storage listing
\* under camera/date/ (same multiset) in ascending lexical order of the full key,
\* whatever order the listing arrived in, and 200 with an empty list when the prefix
\* has no objects.
C6_ListSorted ==
    (Returned /\ frame.endpoint = "list_videos" /\ frame.raised = "none") =>
        LET files == frame.response.files
        IN /\ frame.response.status = 200
           /\ frame.response.kind = "files"
           /\ frame.prefix = Prefix(frame.camera, frame.date)
           /\ Range(frame.Contents) = KeysUnder(frame.prefix)
           /\ Len(files) = Len(frame.Contents)
           /\ \A k \in Range(files) \cup Range(frame.Contents) :
                Cardinality({i \in 1..Len(files) : files[i] = k})
                    = Cardinality({i \in 1..Len(frame.Contents) : frame.Contents[i] = k})
           /\ \A i, j \in 1..Len(files) : i < j => StrLeq(files[i], files[j])
           /\ KeysUnder(frame.prefix) = {} => files = <<>>

\* C6 witness: a listing of at least two keys that did not arrive in ascending order
\* has been answered.
C6_Witness ==
    /\ Returned
    /\ frame.endpoint = "list_videos"
    /\ frame.response.status = 200
    /\ Len(frame.Contents) >= 2
    /\ frame.response.files # frame.Contents

(***************************************************************************)
(* C7                                                                      *)
(***************************************************************************)
\* C7: generate_stream emits exactly the non-empty chunks of the source, in order and
\* unmodified, so the emitted bytes equal the source bytes; it ends once the source
\* has signalled end-of-data.
C7_RelayNonEmptyChunks ==
    relay.gen # "off" =>
        /\ IsPrefixOf(relay.emitted, NonEmptyChunks(relay.all))
        /\ relay.gen = "done" =>
             /\ relay.source = <<>> /\ relay.avail = <<>> /\ relay.held = <<>>
             /\ relay.emitted = NonEmptyChunks(relay.all)
             /\ Concat(relay.emitted) = Concat(relay.all)

\* C7 witness: a source with an empty chunk between two non-empty ones has been
\* relayed to its end.
C7_Witness ==
    /\ relay.gen = "done"
    /\ Len(relay.all) = 3
    /\ relay.all[1] # <<>> /\ relay.all[2] = <<>> /\ relay.all[3] # <<>>
    /\ Len(relay.emitted) = 2

(***************************************************************************)
(* C8                                                                      *)
(***************************************************************************)
\* C8: a storage call of one request that has not yet returned never prevents the
\* handler of another request in flight from taking its next step.
C8_StorageCallDoesNotBlockOthers ==
    \A r, q \in Requests :
        (r # q /\ pc[r] \in {"listing", "getting"} /\ pc[q] = "scheduled")
            => ENABLED (get_video(q) \/ list_videos(q))

(***************************************************************************)
(* C9                                                                      *)
(***************************************************************************)
\* C9: a request whose storage call fails ends with status 500 and one of the two
\* fixed error bodies, carrying nothing of the exception, prefix or key; never 200
\* or 404.
C9_StorageFailureIs500 ==
    (Returned /\ frame.raised # "none") =>
        /\ frame.response.status = 500
        /\ frame.response.kind = "error"
        /\ frame.response.error \in {"MinIO access error", "Server error"}
        /\ frame.response.detail = <<>>
        /\ frame.response.files = <<>>
        /\ frame.response.key = None

\* C9 witness: a request whose list call raised a client error has been answered 500.
C9_Witness ==
    /\ Returned
    /\ frame.list_calls = 1
    /\ frame.raised = "ClientError"
    /\ frame.response.status = 500

(***************************************************************************)
(* C10                                                                     *)
(***************************************************************************)
\* C10: generate_stream holds at most one chunk of at most chunk_size bytes read
\* from the storage stream and not yet handed to the consumer, and reads from the
\* stream only while the consumer is waiting for its next chunk.
C10_AtMostOneChunkHeld ==
    relay.gen # "off" =>
        /\ Len(relay.held) <= 1
        /\ \A i \in 1..Len(relay.held) : Len(relay.held[i]) <= chunk_size
        /\ relay.gen \in {"reading", "testing"} => relay.consumer = "waiting"
        /\ relay.consumer = "sending" => relay.gen = "suspended" /\ relay.held = <<>>

\* C10 witness: the source has run two chunks ahead while the consumer is still
\* sending the chunk it was given, and the relay holds nothing.
C10_Witness ==
    /\ relay.consumer = "sending"
    /\ Len(relay.avail) >= 2
    /\ relay.held = <<>>
    /\ Len(relay.emitted) = 1

=============================================================================
